---- MODULE Spec2Model ----
(***************************************************************************)
(* A model of oplus' typed-value core:                                     *)
(*   - oplus/idd/field_descriptor.py : to_num and class FieldDescriptor    *)
(*   - oplus/util.py                 : class EPlusDt and get_string_buffer *)
(*                                                                         *)
(* Python strings are sequences of one-character strings, so that          *)
(* str.lower(), slicing and parsing are computed character by character.   *)
(* Python values are tagged records: PyNone, PyStr(s), PyInt(n), ...       *)
(* An operation that raises leaves the objects as they were and records    *)
(* Raised(<exception class>) as its outcome in ret.                        *)
(***************************************************************************)
EXTENDS Integers, Sequences, FiniteSets, TLC

VARIABLES
    fd,     \* variable name -> FieldDescriptor object, None, or Unbound
    heap,   \* dict id -> the _tags_d dict object stored at that id
    ret,    \* outcome of the last call: [op, args, val]
    clock,  \* variable name -> EPlusDt object or Unbound
    fs      \* the paths at which the file system holds a regular file

vars == <<fd, heap, ret, clock, fs>>

(***************************************************************************)
(* Python values                                                           *)
(***************************************************************************)
PyNone == [t |-> "None"]
PyStr(s) == [t |-> "str", v |-> s]
PyInt(n) == [t |-> "int", v |-> n]
PyBool(b) == [t |-> "bool", v |-> b]
\* a float is mant * 10^exp10, or one of the specials inf / nan
PyFloat(mant, exp10) == [t |-> "float", mant |-> mant, exp10 |-> exp10]
PyFloatSpecial(which) == [t |-> "float", special |-> which]
Raised(exc) == [t |-> "raise", exc |-> exc]
Unbound == [t |-> "unbound"]
NoCall == [op |-> "none", args |-> <<>>, val |-> PyNone]
Call(op, args, val) == [op |-> op, args |-> args, val |-> val]

(***************************************************************************)
(* Strings                                                                 *)
(***************************************************************************)
UpperChars ==
    <<"A","B","C","D","E","F","G","H","I","J","K","L","M",
      "N","O","P","Q","R","S","T","U","V","W","X","Y","Z">>
LowerChars ==
    <<"a","b","c","d","e","f","g","h","i","j","k","l","m",
      "n","o","p","q","r","s","t","u","v","w","x","y","z">>
DigitChars == <<"0","1","2","3","4","5","6","7","8","9">>

IndexOf(c, seq) ==
    IF \E i \in 1..Len(seq) : seq[i] = c
    THEN CHOOSE i \in 1..Len(seq) : seq[i] = c
    ELSE 0

\* str.lower() on one character
lower_char(c) ==
    IF IndexOf(c, UpperChars) > 0 THEN LowerChars[IndexOf(c, UpperChars)] ELSE c

\* str.upper() on one character
upper_char(c) ==
    IF IndexOf(c, LowerChars) > 0 THEN UpperChars[IndexOf(c, LowerChars)] ELSE c

\* str.lower()
lower(s) == [i \in 1..Len(s) |-> lower_char(s[i])]

s_reference == <<"r","e","f","e","r","e","n","c","e">>
s_object_list == <<"o","b","j","e","c","t","-","l","i","s","t">>
s_external_list == <<"e","x","t","e","r","n","a","l","-","l","i","s","t">>
s_choice == <<"c","h","o","i","c","e">>
s_alpha == <<"a","l","p","h","a">>
s_real == <<"r","e","a","l">>
s_autocalculate == <<"a","u","t","o","c","a","l","c","u","l","a","t","e">>
s_autosize == <<"a","u","t","o","s","i","z","e">>

(***************************************************************************)
(* FieldDescriptor                                                         *)
(***************************************************************************)
\* {} : a dict maps each of its keys (tag refs, kept as plain strings: the
\* code only tests them for equality and membership) to a list of values
EmptyDict == [r \in {} |-> <<>>]

IsFD(o) == o.t = "FieldDescriptor"

\* the id the allocator gives the next dict object
NewId(h) == CHOOSE i \in 1..(Cardinality(DOMAIN h) + 1) : i \notin DOMAIN h

\* reference counting: a dict no descriptor refers to is freed
Collect(f, h) ==
    LET live == {f[x].tags_d : x \in {y \in DOMAIN f : IsFD(f[y])}}
    IN  [i \in (DOMAIN h) \cap live |-> h[i]]

\* FieldDescriptor.__init__ (field_basic_type in ("A", "N"))
FieldDescriptor_init(field_basic_type, name, id) ==
    [t |-> "FieldDescriptor", basic_type |-> field_basic_type, name |-> name,
     tags_d |-> id, detailed_type |-> PyNone]

\* self._tags_d of a descriptor
TagsOf(o) == heap[o.tags_d]

\* has_tag
has_tag(o, ref) == ref \in DOMAIN TagsOf(o)

\* --- add_tag(ref, value=None) ---
dict_setdefault(d, ref) ==
    IF ref \in DOMAIN d THEN d
    ELSE [r \in (DOMAIN d) \cup {ref} |-> IF r = ref THEN <<>> ELSE d[r]]

dict_pop(d, ref) == [r \in (DOMAIN d) \ {ref} |-> d[r]]

tags_after_add(d, ref, value) ==
    LET d1 == dict_setdefault(d, ref)
    IN  IF value # PyNone THEN [d1 EXCEPT ![ref] = Append(@, value.v)] ELSE d1

add_tag(self, ref, value) ==
    /\ IsFD(fd[self])
    /\ heap' = [heap EXCEPT ![fd[self].tags_d] = tags_after_add(@, ref, value)]
    /\ ret' = Call("add_tag", <<self, ref, value>>, PyNone)
    /\ UNCHANGED <<fd, clock, fs>>

\* --- remove_tag(ref, errors="raise") ---
remove_tag_outcome(d, ref, errors) ==
    IF errors = "raise"
    THEN IF ref \in DOMAIN d THEN PyNone ELSE Raised("KeyError")
    ELSE IF errors = "ignore" THEN PyNone ELSE Raised("ValueError")

tags_after_remove(d, ref, errors) ==
    IF errors \in {"raise", "ignore"} /\ ref \in DOMAIN d THEN dict_pop(d, ref) ELSE d

remove_tag(self, ref, errors) ==
    /\ IsFD(fd[self])
    /\ heap' = [heap EXCEPT ![fd[self].tags_d] = tags_after_remove(@, ref, errors)]
    /\ ret' = Call("remove_tag", <<self, ref, errors>>,
                   remove_tag_outcome(TagsOf(fd[self]), ref, errors))
    /\ UNCHANGED <<fd, clock, fs>>

\* --- detailed_type (property) ---
\* resolve_detailed_type with the 'key' test moved ahead of 'reference'
resolve_detailed_type_key_first(basic_type, d) ==
    IF "key" \in DOMAIN d THEN PyStr(s_choice)
    ELSE IF "reference" \in DOMAIN d THEN PyStr(s_reference)
    ELSE IF "type" \in DOMAIN d
         THEN IF Len(d["type"]) = 0 THEN Raised("IndexError")
              ELSE PyStr(lower(d["type"][1]))
    ELSE IF "object-list" \in DOMAIN d THEN PyStr(s_object_list)
    ELSE IF "external-list" \in DOMAIN d THEN PyStr(s_external_list)
    ELSE IF basic_type = "A" THEN PyStr(s_alpha)
    ELSE IF basic_type = "N" THEN PyStr(s_real)
    ELSE Raised("ValueError")

\* the if / elif chain run when self._detailed_type is None
resolve_detailed_type(basic_type, d) ==
    IF "reference" \in DOMAIN d THEN PyStr(s_reference)
    ELSE IF "type" \in DOMAIN d
         THEN IF Len(d["type"]) = 0 THEN Raised("IndexError")
              ELSE PyStr(lower(d["type"][1]))
    ELSE IF "key" \in DOMAIN d THEN PyStr(s_choice)
    ELSE IF "object-list" \in DOMAIN d THEN PyStr(s_object_list)
    ELSE IF "external-list" \in DOMAIN d THEN PyStr(s_external_list)
    ELSE IF basic_type = "A" THEN PyStr(s_alpha)
    ELSE IF basic_type = "N" THEN PyStr(s_real)
    ELSE Raised("ValueError")

\* the value the property returns (or what it raises)
detailed_type_value(o, d) ==
    IF o.detailed_type = PyNone THEN resolve_detailed_type(o.basic_type, d)
    ELSE o.detailed_type

\* self._detailed_type after the read
detailed_type_cache(o, d) ==
    IF detailed_type_value(o, d).t = "raise" THEN o.detailed_type
    ELSE detailed_type_value(o, d)

\* args[2] records whether self._detailed_type was None on entry
detailed_type(self) ==
    /\ IsFD(fd[self])
    /\ fd' = [fd EXCEPT ![self].detailed_type =
                 detailed_type_cache(fd[self], TagsOf(fd[self]))]
    /\ ret' = Call("detailed_type", <<self, fd[self].detailed_type = PyNone>>,
                   detailed_type_value(fd[self], TagsOf(fd[self])))
    /\ UNCHANGED <<heap, clock, fs>>

\* --- __eq__ ---
\* sorted(d.items()): the keys of a dict are distinct, so the sort orders the
\* items by key alone and two sorted item lists are equal iff they hold the
\* same (key, list) pairs
sorted_items(d) == {<<r, d[r]>> : r \in DOMAIN d}

FD_eq_value(o1, d1, o2, d2) ==
    IF o1.name # o2.name THEN FALSE
    ELSE IF o1.basic_type # o2.basic_type THEN FALSE
    ELSE IF \/ Cardinality(DOMAIN d1) # Cardinality(DOMAIN d2)
            \/ sorted_items(d1) # sorted_items(d1)
         THEN FALSE
    ELSE TRUE

FD_eq(self, other) ==
    /\ IsFD(fd[self])
    /\ IsFD(fd[other])
    /\ ret' = Call("__eq__", <<self, other>>,
                   PyBool(FD_eq_value(fd[self], TagsOf(fd[self]),
                                      fd[other], TagsOf(fd[other]))))
    /\ UNCHANGED <<fd, heap, clock, fs>>

\* --- copy(deep=False) ---
\* copy.deepcopy(self): a new object whose attributes are deep copies, the
\* dict (with its lists) stored at the fresh id
deepcopy_obj(o, id) == [o EXCEPT !.tags_d = id]

\* what copy() returns: the deep branch calls copy.copy(self) and drops the
\* result, so the call returns None
copy_value(o, deep, id) == IF deep THEN PyNone ELSE deepcopy_obj(o, id)

copy(self, deep, dst) ==
    /\ IsFD(fd[self])
    /\ LET id == NewId(heap)
           h1 == IF deep THEN heap
                 ELSE [i \in (DOMAIN heap) \cup {id} |->
                          IF i = id THEN TagsOf(fd[self]) ELSE heap[i]]
           f1 == [fd EXCEPT ![dst] = copy_value(fd[self], deep, id)]
       IN  /\ fd' = f1
           /\ heap' = Collect(f1, h1)
    /\ ret' = Call("copy", <<self, deep, dst>>, PyNone)
    /\ UNCHANGED <<clock, fs>>

\* --- text normalisation used by cleanup_and_check_raw_value ---
\* the characters "\s" matches and str.strip() strips
IsSpace(c) == c \in {" ", "\t", "\n"}

RECURSIVE lstrip(_)
lstrip(s) == IF Len(s) > 0 /\ IsSpace(Head(s)) THEN lstrip(Tail(s)) ELSE s

RECURSIVE rstrip(_)
rstrip(s) ==
    IF Len(s) > 0 /\ IsSpace(s[Len(s)]) THEN rstrip(SubSeq(s, 1, Len(s) - 1)) ELSE s

\* str.strip()
strip(s) == rstrip(lstrip(s))

\* re.sub(spaces_pattern, lambda x: " ", s): every maximal run of whitespace
\* becomes one space
RECURSIVE sub_spaces(_)
sub_spaces(s) ==
    IF Len(s) = 0 THEN <<>>
    ELSE IF IsSpace(Head(s)) THEN <<" ">> \o sub_spaces(lstrip(s))
    ELSE <<Head(s)>> \o sub_spaces(Tail(s))

\* unidecode.unidecode on one character: ASCII is kept, the non-ASCII
\* code points of the alphabet are transliterated
unidecode_char(c) ==
    CASE c = "U+00E9" -> <<"e">>
      [] c = "U+00C9" -> <<"E">>
      [] c = "U+00DF" -> <<"s", "s">>
      [] OTHER -> <<c>>

RECURSIVE unidecode(_)
unidecode(s) ==
    IF Len(s) = 0 THEN <<>> ELSE unidecode_char(Head(s)) \o unidecode(Tail(s))

\* --- int(str) and float(str) over the alphabet of the model ---
unsigned(s) == IF Len(s) > 0 /\ s[1] \in {"+", "-"} THEN Tail(s) ELSE s

sign_of(s) == IF Len(s) > 0 /\ s[1] = "-" THEN -1 ELSE 1

all_digits(s) == \A i \in 1..Len(s) : IndexOf(s[i], DigitChars) > 0

RECURSIVE digits_value(_)
digits_value(s) ==
    IF Len(s) = 0 THEN 0
    ELSE 10 * digits_value(SubSeq(s, 1, Len(s) - 1)) + (IndexOf(s[Len(s)], DigitChars) - 1)

\* int(s) succeeds: optional surrounding whitespace, optional sign, digits
is_int_literal(s) ==
    LET b == unsigned(strip(s)) IN Len(b) > 0 /\ all_digits(b)

int_value(s) == sign_of(strip(s)) * digits_value(unsigned(strip(s)))

\* the parts of a float literal's body: mantissa [eE] exponent
exp_pos(b) == IndexOf("e", lower(b))
mantissa_of(b) == IF exp_pos(b) = 0 THEN b ELSE SubSeq(b, 1, exp_pos(b) - 1)
exponent_of(b) == IF exp_pos(b) = 0 THEN <<>> ELSE SubSeq(b, exp_pos(b) + 1, Len(b))
int_part(m) == IF IndexOf(".", m) = 0 THEN m ELSE SubSeq(m, 1, IndexOf(".", m) - 1)
frac_part(m) == IF IndexOf(".", m) = 0 THEN <<>> ELSE SubSeq(m, IndexOf(".", m) + 1, Len(m))

float_specials == {<<"i","n","f">>, <<"i","n","f","i","n","i","t","y">>, <<"n","a","n">>}

is_decimal_literal(b) ==
    LET m == mantissa_of(b)
        e == exponent_of(b)
    IN  /\ all_digits(int_part(m))
        /\ all_digits(frac_part(m))
        /\ Len(int_part(m)) + Len(frac_part(m)) > 0
        /\ exp_pos(b) > 0 => (Len(unsigned(e)) > 0 /\ all_digits(unsigned(e)))

\* float(s) succeeds
is_float_literal(s) ==
    LET b == unsigned(strip(s))
    IN  lower(b) \in float_specials \/ is_decimal_literal(b)

\* mant * 10^exp10 with the trailing zeros of mant moved into the exponent
RECURSIVE normal_float(_, _)
normal_float(mant, exp10) ==
    IF mant = 0 THEN PyFloat(0, 0)
    ELSE IF mant % 10 = 0 THEN normal_float(mant \div 10, exp10 + 1)
    ELSE PyFloat(mant, exp10)

float_value(s) ==
    LET b == unsigned(strip(s))
        m == mantissa_of(b)
        e == exponent_of(b)
    IN  IF lower(b) \in float_specials
        THEN PyFloatSpecial(<<sign_of(strip(s)), lower(b)>>)
        ELSE normal_float(sign_of(strip(s)) * digits_value(int_part(m) \o frac_part(m)),
                          sign_of(e) * digits_value(unsigned(e)) - Len(frac_part(m)))

\* --- to_num(raw_value) ---
to_num(raw_value) ==
    IF raw_value.t = "str"
    THEN IF raw_value.v \in {s_autocalculate, s_autosize} THEN raw_value
         ELSE IF is_int_literal(raw_value.v) THEN PyInt(int_value(raw_value.v))
         ELSE IF is_float_literal(raw_value.v) THEN float_value(raw_value.v)
         ELSE Raised("ValueError")
    ELSE PyNone

\* --- cleanup_and_check_raw_value(unsafe_raw_value) ---
MaxFieldLen == 100

\* the string after strip, whitespace collapse, transliteration and case fold
normalized(retaincase, unsafe) ==
    LET r == unidecode(sub_spaces(strip(unsafe)))
    IN  IF ~retaincase THEN lower(r) ELSE r

cleanup_value(basic_type, retaincase, unsafe_raw_value) ==
    LET unsafe == IF unsafe_raw_value = PyNone THEN PyStr(<<>>) ELSE unsafe_raw_value
    IN  IF unsafe.t # "str" THEN Raised("AssertionError")
        ELSE LET raw_value == normalized(retaincase, unsafe.v)
             IN  IF Len(raw_value) > MaxFieldLen THEN Raised("AssertionError")
                 ELSE IF Len(raw_value) # 0 /\ basic_type = "N"
                         /\ to_num(PyStr(raw_value)).t = "raise"
                      THEN to_num(PyStr(raw_value))
                 ELSE PyStr(raw_value)

cleanup_and_check_raw_value(self, unsafe_raw_value) ==
    /\ IsFD(fd[self])
    /\ ret' = Call("cleanup_and_check_raw_value", <<self, unsafe_raw_value>>,
                   cleanup_value(fd[self].basic_type, has_tag(fd[self], "retaincase"),
                                 unsafe_raw_value))
    /\ UNCHANGED <<fd, heap, clock, fs>>

\* --- basic_parse(raw_value) ---
basic_parse_value(basic_type, raw_value) ==
    IF raw_value = PyNone \/ raw_value = PyStr(<<>>) THEN PyNone
    ELSE IF basic_type = "A" THEN raw_value
    ELSE IF raw_value.t = "str" THEN to_num(raw_value)
    ELSE IF raw_value.t \in {"int", "float"} THEN raw_value
    ELSE PyNone

\* args[3] keeps the text the value was cleaned up from, when raw_value is
\* the result of the preceding cleanup_and_check_raw_value
basic_parse(self, raw_value, origin) ==
    /\ IsFD(fd[self])
    /\ ret' = Call("basic_parse", <<self, raw_value, origin>>,
                   basic_parse_value(fd[self].basic_type, raw_value))
    /\ UNCHANGED <<fd, heap, clock, fs>>

(***************************************************************************)
(* Inputs and bounds of the FieldDescriptor specifications                 *)
(***************************************************************************)
NoClocks == [x \in {"x", "y"} |-> Unbound]

\* the tags detailed_type looks at
DetailTags == {"reference", "type", "key", "object-list", "external-list"}

\* values of the 'type' tag, as the idd spells them
TypeValues ==
    {<<"I","n","t","e","g","e","r">>, <<"R","E","A","L">>, <<"n","o","d","e">>}

\* longest value list add_tag builds in SpecType
MaxTypeValues == 2

ErrorsModes == {"raise", "ignore", "strict"}

(***************************************************************************)
(* SpecType: one descriptor; tags are added and removed and its detailed   *)
(* type is read, in any order                                              *)
(***************************************************************************)
InitType ==
    /\ \E bt \in {"A", "N"} :
          fd = [a |-> FieldDescriptor_init(bt, PyNone, 1), b |-> Unbound]
    /\ heap = [i \in {1} |-> EmptyDict]
    /\ ret = NoCall
    /\ clock = NoClocks
    /\ fs = {}

TypeAddTag ==
    \E ref \in DetailTags, value \in {PyNone} \cup {PyStr(v) : v \in TypeValues} :
        /\ value # PyNone => ref = "type"
        /\ value # PyNone /\ has_tag(fd["a"], ref) => Len(TagsOf(fd["a"])[ref]) < MaxTypeValues
        /\ add_tag("a", ref, value)

TypeRemoveTag ==
    \E ref \in DetailTags, errors \in ErrorsModes : remove_tag("a", ref, errors)

TypeRead == detailed_type("a")

NextType == TypeAddTag \/ TypeRemoveTag \/ TypeRead

SpecType == InitType /\ [][NextType]_vars

\* --- the precedence rule of detailed_type, stated on its own ---
PrecedenceOrder == <<"reference", "type", "key", "object-list", "external-list">>

\* index in PrecedenceOrder of the first tag the dict holds, 0 when it holds none
FirstPresent(d) ==
    IF \E i \in 1..Len(PrecedenceOrder) : PrecedenceOrder[i] \in DOMAIN d
    THEN CHOOSE i \in 1..Len(PrecedenceOrder) :
            /\ PrecedenceOrder[i] \in DOMAIN d
            /\ \A j \in 1..(i - 1) : PrecedenceOrder[j] \notin DOMAIN d
    ELSE 0

\* s is t with every upper-case letter replaced by its lower-case letter
IsLowerCased(s, t) ==
    /\ Len(s) = Len(t)
    /\ \A i \in 1..Len(s) :
          /\ IndexOf(s[i], UpperChars) = 0
          /\ upper_char(s[i]) = upper_char(t[i])

\* the 'type' tag decides but carries no value: the rule names no result
TypeTagEmpty(d) == FirstPresent(d) = 2 /\ Len(d["type"]) = 0

\* v is the detailed type the rule gives for basic type bt and tags d
MatchesPrecedence(v, bt, d) ==
    LET i == FirstPresent(d)
    IN  /\ v.t = "str"
        /\ CASE i = 1 -> v.v = s_reference
             [] i = 2 -> IsLowerCased(v.v, d["type"][1])
             [] i = 3 -> v.v = s_choice
             [] i = 4 -> v.v = s_object_list
             [] i = 5 -> v.v = s_external_list
             [] OTHER -> v.v = (IF bt = "A" THEN s_alpha ELSE s_real)

C2_EveryReadFollowsPrecedence ==
    (ret.op = "detailed_type" /\ ~TypeTagEmpty(TagsOf(fd[ret.args[1]]))) =>
        MatchesPrecedence(ret.val, fd[ret.args[1]].basic_type, TagsOf(fd[ret.args[1]]))

(***************************************************************************)
(* SpecPair: two descriptors a and b, each built by the constructor; tags  *)
(* are added to and removed from either, either is replaced by a copy of   *)
(* the other, and the two are compared                                     *)
(***************************************************************************)
PairNames == {PyNone, PyStr(<<"Z","o","n","e">>)}
PairTags == {"key", "note"}
PairValues == {<<"Y","e","s">>, <<"N","o">>}
Other(slot) == IF slot = "a" THEN "b" ELSE "a"

\* longest value list add_tag builds in SpecPair
MaxPairValues == 1

InitPair ==
    /\ \E bta \in {"A", "N"}, btb \in {"A", "N"}, na \in PairNames, nb \in PairNames :
          fd = [a |-> FieldDescriptor_init(bta, na, 1),
                b |-> FieldDescriptor_init(btb, nb, 2)]
    /\ heap = [i \in {1, 2} |-> EmptyDict]
    /\ ret = NoCall
    /\ clock = NoClocks
    /\ fs = {}

PairAddTag ==
    \E self \in {"a", "b"}, ref \in PairTags,
       value \in {PyNone} \cup {PyStr(v) : v \in PairValues} :
        /\ IsFD(fd[self])
        /\ value # PyNone /\ has_tag(fd[self], ref) =>
              Len(TagsOf(fd[self])[ref]) < MaxPairValues
        /\ add_tag(self, ref, value)

PairRemoveTag ==
    \E self \in {"a", "b"}, ref \in PairTags, errors \in ErrorsModes :
        remove_tag(self, ref, errors)

PairEq == \E self \in {"a", "b"}, other \in {"a", "b"} : FD_eq(self, other)

PairCopy == \E self \in {"a", "b"}, deep \in BOOLEAN : copy(self, deep, Other(self))

NextPair == PairAddTag \/ PairRemoveTag \/ PairEq \/ PairCopy

SpecPair == InitPair /\ [][NextPair]_vars

\* C3: a == b is true if and only if a and b have the same name, the same
\* basic type and the same tags, each with the same value sequence.
C3_EqIffSameContent ==
    ret.op = "__eq__" =>
        LET o1 == fd[ret.args[1]]
            o2 == fd[ret.args[2]]
        IN  ret.val.v <=> /\ o1.name = o2.name
                          /\ o1.basic_type = o2.basic_type
                          /\ DOMAIN TagsOf(o1) = DOMAIN TagsOf(o2)
                          /\ \A r \in DOMAIN TagsOf(o1) : TagsOf(o1)[r] = TagsOf(o2)[r]

\* C4: copy(deep), for either value of deep, returns a FieldDescriptor with
\* the name, basic type and tags of the original and a tag store of its own,
\* and a later add_tag or remove_tag on one descriptor leaves the tags of
\* the other unchanged.
C4_CopyIsIndependentDescriptor ==
    [][/\ ret'.op = "copy" =>
            LET o == fd'[ret'.args[1]]
                c == fd'[ret'.args[3]]
            IN  /\ IsFD(c)
                /\ c.name = o.name
                /\ c.basic_type = o.basic_type
                /\ c.tags_d # o.tags_d
                /\ heap'[c.tags_d] = heap'[o.tags_d]
       /\ ret'.op \in {"add_tag", "remove_tag"} =>
            LET other == Other(ret'.args[1])
            IN  IsFD(fd[other]) => heap'[fd'[other].tags_d] = heap[fd[other].tags_d]
      ]_vars

(***************************************************************************)
(* SpecParse: one descriptor; tags are added and removed, raw values are   *)
(* cleaned up and the cleaned value is parsed                              *)
(***************************************************************************)
ParseTags == {"retaincase", "type"}

\* w with the letters at the positions in up upper-cased
Spelled(w, up) == [i \in 1..Len(w) |-> IF i \in up THEN upper_char(w[i]) ELSE w[i]]

\* the spellings of w with at most k upper-case letters, anywhere, and the
\* all-upper-case one
SomeSpellings(w, k) ==
    {Spelled(w, up) : up \in {u \in SUBSET (1..Len(w)) : Cardinality(u) <= k}}
        \cup {Spelled(w, 1..Len(w))}

\* most upper-case letters in the sampled spellings of the two sentinels
MaxUpperAutosize == 2
MaxUpperAutocalculate == 1

IsSentinelSpelling(s) == lower(s) \in {s_autocalculate, s_autosize}

OtherRawStrings ==
    {<<>>, <<" ", "1", "5", "\t">>, <<"-", "1", ".", "5", "0">>, <<"1", "E", "2">>,
     <<"I", "n", "f">>, <<"Z", "o", "n", "e", " ", "\t", "U+00C9", "t", "U+00E9">>,
     <<"1", "5", " ", "k", "W">>}

RawInputs ==
    {PyStr(v) : v \in SomeSpellings(s_autosize, MaxUpperAutosize)
                         \cup SomeSpellings(s_autocalculate, MaxUpperAutocalculate)
                         \cup OtherRawStrings}
        \cup {PyNone, PyInt(15)}

InitParse ==
    /\ \E bt \in {"A", "N"} :
          fd = [a |-> FieldDescriptor_init(bt, PyNone, 1), b |-> Unbound]
    /\ heap = [i \in {1} |-> EmptyDict]
    /\ ret = NoCall
    /\ clock = NoClocks
    /\ fs = {}

ParseAddTag == \E ref \in ParseTags : add_tag("a", ref, PyNone)

ParseRemoveTag == \E ref \in ParseTags : remove_tag("a", ref, "ignore")

ParseCleanup == \E raw \in RawInputs : cleanup_and_check_raw_value("a", raw)

\* the record reader's pipeline: the cleaned value is handed to basic_parse
ParseCleaned ==
    /\ ret.op = "cleanup_and_check_raw_value"
    /\ ret.val.t = "str"
    /\ basic_parse(ret.args[1], ret.val, ret.args[2])

\* a value parsed earlier in a pipeline, or no value
ParseParsed ==
    \E raw \in {PyNone, PyInt(15), PyFloat(-15, -1)} : basic_parse("a", raw, raw)

NextParse == ParseAddTag \/ ParseRemoveTag \/ ParseCleanup \/ ParseCleaned \/ ParseParsed

SpecParse == InitParse /\ [][NextParse]_vars

\* C8: on a descriptor of basic type N, whatever its tags, for every
\* upper/lower-case spelling of 'autocalculate' or 'autosize',
\* cleanup_and_check_raw_value succeeds and basic_parse of its result is the
\* lower-cased sentinel as a string.
C8_SentinelSurvivesAnyCase ==
    /\ ( /\ ret.op = "cleanup_and_check_raw_value"
         /\ fd[ret.args[1]].basic_type = "N"
         /\ ret.args[2].t = "str"
         /\ IsSentinelSpelling(ret.args[2].v) )
       => ret.val = PyStr(lower(ret.args[2].v))
    /\ ( /\ ret.op = "basic_parse"
         /\ fd[ret.args[1]].basic_type = "N"
         /\ ret.args[3].t = "str"
         /\ IsSentinelSpelling(ret.args[3].v) )
       => ret.val = PyStr(lower(ret.args[3].v))

(***************************************************************************)
(* datetime.datetime, datetime.timedelta(hours=...) and calendar.isleap    *)
(***************************************************************************)
isleap(year) == year % 4 = 0 /\ (year % 100 # 0 \/ year % 400 = 0)

days_in_month(year, month) ==
    IF month = 2 THEN (IF isleap(year) THEN 29 ELSE 28)
    ELSE IF month \in {4, 6, 9, 11} THEN 30 ELSE 31

DT(year, month, day, hour, minute) ==
    [t |-> "datetime", year |-> year, month |-> month, day |-> day,
     hour |-> hour, minute |-> minute]

\* dt.datetime(year, month, day, hour, minute): ValueError outside the ranges
dt_datetime(year, month, day, hour, minute) ==
    IF /\ year \in 1..9999
       /\ month \in 1..12
       /\ day \in 1..days_in_month(year, month)
       /\ hour \in 0..23
       /\ minute \in 0..59
    THEN DT(year, month, day, hour, minute)
    ELSE Raised("ValueError")

next_day(d) ==
    IF d.day < days_in_month(d.year, d.month) THEN [d EXCEPT !.day = @ + 1]
    ELSE IF d.month < 12 THEN [d EXCEPT !.month = @ + 1, !.day = 1]
    ELSE [d EXCEPT !.year = @ + 1, !.month = 1, !.day = 1]

prev_day(d) ==
    IF d.day > 1 THEN [d EXCEPT !.day = @ - 1]
    ELSE IF d.month > 1
         THEN [d EXCEPT !.month = @ - 1, !.day = days_in_month(d.year, d.month - 1)]
    ELSE [d EXCEPT !.year = @ - 1, !.month = 12, !.day = 31]

\* d + dt.timedelta(hours=n) for n in {-1, 0, 1}: OverflowError outside the
\* years 1..9999
plus_hours(d, n) ==
    LET r == IF d.hour + n > 23 THEN [next_day(d) EXCEPT !.hour = 0]
             ELSE IF d.hour + n < 0 THEN [prev_day(d) EXCEPT !.hour = 23]
             ELSE [d EXCEPT !.hour = @ + n]
    IN  IF r.year \in 1..9999 THEN r ELSE Raised("OverflowError")

\* d.replace(year=year): ValueError when the day does not exist in that year
replace_year(d, year) ==
    IF d.day <= days_in_month(year, d.month) THEN [d EXCEPT !.year = year]
    ELSE Raised("ValueError")

\* d1 < d2
dt_lt(d1, d2) ==
    LET a == <<d1.year, d1.month, d1.day, d1.hour, d1.minute>>
        b == <<d2.year, d2.month, d2.day, d2.hour, d2.minute>>
    IN  \E i \in 1..5 : a[i] < b[i] /\ \A j \in 1..(i - 1) : a[j] = b[j]

(***************************************************************************)
(* EPlusDt                                                                 *)
(***************************************************************************)
\* the year of _standard_dt
RefYear == 2000

\* to_datetime_try taking every minute from 60 up as "top of the next hour"
to_datetime_try_from_60(year, month, day, eplus_hour, eplus_minute) ==
    LET hour_cor == IF eplus_minute >= 60 THEN 1 ELSE 0
        minute == IF eplus_minute >= 60 THEN 0 ELSE eplus_minute
        base == dt_datetime(year, month, day, eplus_hour - 1, minute)
        moved == IF base.t = "raise" THEN base ELSE plus_hours(base, hour_cor)
    IN  IF moved.t = "raise" THEN moved ELSE replace_year(moved, year)

\* the try block of to_datetime: what it evaluates to, or what it raises
to_datetime_try(year, month, day, eplus_hour, eplus_minute) ==
    LET hour_cor == IF eplus_minute = 60 THEN 1 ELSE 0
        minute == IF eplus_minute = 60 THEN 0 ELSE eplus_minute
        base == dt_datetime(year, month, day, eplus_hour - 1, minute)
        moved == IF base.t = "raise" THEN base ELSE plus_hours(base, hour_cor)
    IN  IF moved.t = "raise" THEN moved ELSE replace_year(moved, year)

\* EPlusDt.to_datetime: a ValueError on (month, day) = (2, 29) is re-raised
\* as RuntimeError, any other exception propagates
to_datetime(year, month, day, eplus_hour, eplus_minute) ==
    LET r == to_datetime_try(year, month, day, eplus_hour, eplus_minute)
    IN  IF r = Raised("ValueError") /\ <<month, day>> = <<2, 29>>
        THEN Raised("RuntimeError")
        ELSE r

\* the (month, day, hour, minute) stored for a standard timestamp
value_of(standard_dt) ==
    LET d == IF standard_dt.minute = 0 THEN plus_hours(standard_dt, -1) ELSE standard_dt
        minute == IF standard_dt.minute = 0 THEN 60 ELSE standard_dt.minute
    IN  <<d.month, d.day, d.hour + 1, minute>>

\* EPlusDt(month, day, out_hour, out_minute): the object, or what __init__ raises
EPlusDt_init(month, day, out_hour, out_minute) ==
    LET standard_dt == to_datetime(RefYear, month, day, out_hour, out_minute)
    IN  IF standard_dt.t = "raise" THEN standard_dt
        ELSE [t |-> "EPlusDt", standard_dt |-> standard_dt, value |-> value_of(standard_dt)]

\* from_datetime recording minute=60 without stepping back one hour
from_datetime_no_step_back(datetime) ==
    LET minute == IF datetime.minute = 0 THEN 60 ELSE datetime.minute
    IN  EPlusDt_init(datetime.month, datetime.day, datetime.hour + 1, minute)

\* EPlusDt.from_datetime(datetime): the object, or what it raises
from_datetime(datetime) ==
    LET d == IF datetime.minute = 0 THEN plus_hours(datetime, -1) ELSE datetime
        minute == IF datetime.minute = 0 THEN 60 ELSE datetime.minute
    IN  IF d.t = "raise" THEN d
        ELSE EPlusDt_init(d.month, d.day, d.hour + 1, minute)

\* self < other
EPlusDt_lt(self, other) == dt_lt(self.standard_dt, other.standard_dt)

\* datetime(year) without the substitution of day 28
EPlusDt_datetime_no_degrade(self, year) ==
    to_datetime(year, self.value[1], self.value[2], self.value[3], self.value[4])

\* self.datetime(year)
EPlusDt_datetime(self, year) ==
    LET day == IF ~isleap(year) /\ self.value = <<2, 29, 24, 60>>
               THEN 28 ELSE self.value[2]
    IN  to_datetime(year, self.value[1], day, self.value[3], self.value[4])

IsClock(o) == o.t = "EPlusDt"

\* var = EPlusDt(month, day, hour, minute); var keeps its object when the
\* constructor raises
new_clock(var, month, day, hour, minute) ==
    LET o == EPlusDt_init(month, day, hour, minute)
    IN  /\ clock' = IF IsClock(o) THEN [clock EXCEPT ![var] = o] ELSE clock
        /\ ret' = Call("EPlusDt", <<var, month, day, hour, minute>>,
                       IF IsClock(o) THEN PyNone ELSE o)
        /\ UNCHANGED <<fd, heap, fs>>

\* var = EPlusDt.from_datetime(datetime)
clock_from_datetime(var, datetime) ==
    LET o == from_datetime(datetime)
    IN  /\ clock' = IF IsClock(o) THEN [clock EXCEPT ![var] = o] ELSE clock
        /\ ret' = Call("from_datetime", <<var, datetime>>,
                       IF IsClock(o) THEN PyNone ELSE o)
        /\ UNCHANGED <<fd, heap, fs>>

\* self < other
clock_lt(self, other) ==
    /\ IsClock(clock[self])
    /\ IsClock(clock[other])
    /\ ret' = Call("__lt__", <<self, other>>,
                   PyBool(EPlusDt_lt(clock[self], clock[other])))
    /\ UNCHANGED <<fd, heap, clock, fs>>

\* self.datetime(year)
clock_datetime(self, year) ==
    /\ IsClock(clock[self])
    /\ ret' = Call("datetime", <<self, year>>, EPlusDt_datetime(clock[self], year))
    /\ UNCHANGED <<fd, heap, clock, fs>>

(***************************************************************************)
(* SpecClock: two clock variables x and y, each built from components;    *)
(* the two are compared and re-projected onto a year                       *)
(***************************************************************************)
ClockMonths == {1, 2, 12}
ClockDays == {1, 29, 31}
ClockHours == {1, 24}
ClockMinutes == {0, 1, 60}

\* (month, day, hour, minute) of the instants y is built from
EndInstants == {<<1, 1, 1, 1>>, <<12, 31, 24, 60>>, <<6, 15, 12, 30>>}

\* conventional timestamps: every hour of one day, and the first and last
\* hours of the days around the month and year boundaries of a non-leap and
\* a leap year
StampYears == {2019, 2020}
StampDates == {<<1, 1>>, <<2, 28>>, <<2, 29>>, <<3, 1>>, <<12, 31>>}
Stamps ==
    {DT(2019, 3, 1, h, mi) : h \in 0..23, mi \in {0, 30}}
    \cup {DT(y, md[1], md[2], h, mi) : y \in StampYears, md \in StampDates,
                                       h \in {0, 5, 23}, mi \in {0, 1, 59}}

\* a datetime object exists only for a day of the calendar
ValidStamps == {d \in Stamps : d.day <= days_in_month(d.year, d.month)}

\* target years of datetime(year): leap, non-leap, and the two century cases
TargetYears == {1900, 2000, 2019, 2020}

InitClock ==
    /\ fd = [a |-> Unbound, b |-> Unbound]
    /\ heap = EmptyDict
    /\ ret = NoCall
    /\ clock = NoClocks
    /\ fs = {}

ClockNewX ==
    \E month \in ClockMonths, day \in ClockDays, hour \in ClockHours,
       minute \in ClockMinutes : new_clock("x", month, day, hour, minute)

ClockNewY == \E i \in EndInstants : new_clock("y", i[1], i[2], i[3], i[4])

ClockLt == \E self \in {"x", "y"}, other \in {"x", "y"} : clock_lt(self, other)

ClockDatetime == \E self \in {"x", "y"}, year \in TargetYears : clock_datetime(self, year)

NextClock == ClockNewX \/ ClockNewY \/ ClockLt \/ ClockDatetime

SpecClock == InitClock /\ [][NextClock]_vars

(***************************************************************************)
(* SpecStamp: one clock variable x built from conventional timestamps and  *)
(* re-projected onto a year                                                *)
(***************************************************************************)
StampFromDatetime == \E d \in ValidStamps : clock_from_datetime("x", d)

StampDatetime == \E year \in TargetYears : clock_datetime("x", year)

NextStamp == StampFromDatetime \/ StampDatetime

SpecStamp == InitClock /\ [][NextStamp]_vars

(***************************************************************************)
(* SpecRange: one clock variable x built from components in and around     *)
(* their domains                                                           *)
(***************************************************************************)
RangeMonths == {0, 1, 2, 13}
RangeDays == {0, 1, 29, 30, 32}
RangeHours == {0, 1, 24, 25}
RangeMinutes == {-1, 0, 60, 61}

RangeNew ==
    \E month \in RangeMonths, day \in RangeDays, hour \in RangeHours,
       minute \in RangeMinutes : new_clock("x", month, day, hour, minute)

RangeDatetime == \E year \in TargetYears : clock_datetime("x", year)

NextRange == RangeNew \/ RangeDatetime

SpecRange == InitClock /\ [][NextRange]_vars

\* C5: EPlusDt(1, 1, 1, 1) < EPlusDt(12, 31, 24, 60): the clock of the first
\* instant of the year compares less than the clock of the last.
C5_FirstInstantBeforeLast ==
    ( /\ ret.op = "__lt__"
      /\ clock[ret.args[1]].value = <<1, 1, 1, 1>>
      /\ clock[ret.args[2]].value = <<12, 31, 24, 60>> )
    => ret.val = PyBool(TRUE)

\* the day before (month, day) in the given year, as (month, day)
DayBefore(year, month, day) ==
    IF day > 1 THEN <<month, day - 1>>
    ELSE IF month = 1 THEN <<12, 31>>
    ELSE <<month - 1, days_in_month(year, month - 1)>>

C7_LeapDayDegrades ==
    (ret.op = "datetime" /\ clock[ret.args[1]].value = <<2, 29, 24, 60>>) =>
        LET year == ret.args[2]
        IN  /\ ret.val.t = "datetime"
            /\ ret.val = to_datetime(year, 2, IF isleap(year) THEN 29 ELSE 28, 24, 60)
            /\ ret.val = DT(year, 3, 1, 0, 0)

\* C7 witness: (2, 29, 24, 60) has been re-projected onto 2019
C7_Witness ==
    /\ ret.op = "datetime"
    /\ clock[ret.args[1]].value = <<2, 29, 24, 60>>
    /\ ret.args[2] = 2019
    /\ ret.val = DT(2019, 3, 1, 0, 0)

\* the components are in the domains the claim names; a day is valid for
\* its month when the month has that day in some year
InClaimedDomain(month, day, hour, minute) ==
    /\ month \in 1..12
    /\ day \in 1..days_in_month(RefYear, month)
    /\ hour \in 1..24
    /\ minute \in 1..60

\* C9 as claimed: the constructor raises whenever month is outside 1..12,
\* day is not valid for the month, hour is outside 1..24 or minute is
\* outside 1..60, minute = 0 included.
C9_OutOfDomainRaises ==
    ( /\ ret.op = "EPlusDt"
      /\ ~InClaimedDomain(ret.args[2], ret.args[3], ret.args[4], ret.args[5]) )
    => ret.val.t = "raise"

\* C9 as amended: the constructor raises (ValueError, or RuntimeError when
\* (month, day) = (2, 29)) and leaves the variable as it was whenever month
\* is outside 1..12, day is not valid for the month, hour is outside 1..24
\* or minute is outside 0..60; minute = 0 with the other components in
\* their domains is accepted and stored as minute 60 of the hour before.
C9_OutOfDomainRaisesExceptMinute0 ==
    [][ret'.op = "EPlusDt" =>
          LET month == ret'.args[2]
              day == ret'.args[3]
              hour == ret'.args[4]
              minute == ret'.args[5]
          IN  IF InClaimedDomain(month, day, hour, IF minute = 0 THEN 60 ELSE minute)
              THEN /\ ret'.val = PyNone
                   /\ minute = 0 =>
                         /\ clock'["x"].standard_dt = DT(RefYear, month, day, hour - 1, 0)
                         /\ clock'["x"].value[4] = 60
              ELSE /\ ret'.val = Raised(IF <<month, day>> = <<2, 29>>
                                        THEN "RuntimeError" ELSE "ValueError")
                   /\ clock' = clock
      ]_vars

\* C9 witness: a minute of 61 has been refused
C9_Witness ==
    /\ ret.op = "EPlusDt"
    /\ ret.args[5] = 61
    /\ InClaimedDomain(ret.args[2], ret.args[3], ret.args[4], 60)
    /\ ret.val = Raised("ValueError")

(***************************************************************************)
(* get_string_buffer                                                       *)
(***************************************************************************)
\* s[-n:] for n >= 1: the last n characters, the whole string when shorter
last_chars(s, n) == IF n >= Len(s) THEN s ELSE SubSeq(s, Len(s) - n + 1, Len(s))

\* path_or_content[-len(expected_extension)-1:] == ".%s" % expected_extension
has_extension(s, expected_extension) ==
    last_chars(s, Len(expected_extension) + 1) = <<".">> \o expected_extension

\* os.path.isfile(path)
isfile(path) == path \in DOMAIN fs

\* bytes.decode(encoding) on one byte of the alphabet: ASCII bytes decode to
\* their character; 0xE9 is a character in latin-1 and an error in utf-8
decode_byte(b, encoding) ==
    CASE b = 97 -> "a"
      [] b = 46 -> "."
      [] b = 59 -> ";"
      [] b = 233 -> IF encoding = "latin-1" THEN "U+00E9" ELSE "UnicodeDecodeError"
      [] OTHER -> "?"

decode(bytes, encoding) ==
    IF \E i \in 1..Len(bytes) : decode_byte(bytes[i], encoding) = "UnicodeDecodeError"
    THEN Raised("UnicodeDecodeError")
    ELSE PyStr([i \in 1..Len(bytes) |-> decode_byte(bytes[i], encoding)])

StringIO(content) == [t |-> "StringIO", content |-> content]
OpenFile(path, encoding) == [t |-> "TextIOWrapper", name |-> path, encoding |-> encoding]
Tuple2(buffer, path) == [t |-> "tuple", buffer |-> buffer, path |-> path]

\* get_string_buffer with a string ending in the extension read as literal
\* text when no file is there
get_string_buffer_fallback(path_or_content, expected_extension, encoding) ==
    IF path_or_content.t = "str"
    THEN IF has_extension(path_or_content.v, expected_extension)
            /\ isfile(path_or_content.v)
         THEN Tuple2(OpenFile(path_or_content.v, encoding), path_or_content)
         ELSE Tuple2(StringIO(path_or_content.v), PyNone)
    ELSE Raised("ValueError")

\* what get_string_buffer returns, or what it raises
get_string_buffer_value(path_or_content, expected_extension, encoding) ==
    IF path_or_content.t = "str"
    THEN IF has_extension(path_or_content.v, expected_extension)
         THEN IF ~isfile(path_or_content.v) THEN Raised("AssertionError")
              ELSE Tuple2(OpenFile(path_or_content.v, encoding), path_or_content)
         ELSE Tuple2(StringIO(path_or_content.v), PyNone)
    ELSE IF path_or_content.t = "TextIOBase" THEN Tuple2(path_or_content, PyNone)
    ELSE IF path_or_content.t \in {"bytes", "BufferedIOBase"}
         THEN IF decode(path_or_content.v, encoding).t = "raise"
              THEN decode(path_or_content.v, encoding)
              ELSE Tuple2(StringIO(decode(path_or_content.v, encoding).v), PyNone)
    ELSE Raised("ValueError")

get_string_buffer(path_or_content, expected_extension, encoding) ==
    /\ ret' = Call("get_string_buffer", <<path_or_content, expected_extension, encoding>>,
                   get_string_buffer_value(path_or_content, expected_extension, encoding))
    /\ UNCHANGED <<fd, heap, clock, fs>>

(***************************************************************************)
(* SpecBuffer: files appear and disappear, and get_string_buffer is called *)
(* on paths, literal text, bytes and streams                               *)
(***************************************************************************)
s_idf == <<"i", "d", "f">>
s_idd == <<"i", "d", "d">>

\* the paths the file system may hold a file at
FilePaths == {<<"a", ".", "i", "d", "f">>, <<".", "i", "d", "f">>, <<"a", ".", "i", "d", "d">>}

BufferStrings ==
    FilePaths \cup
    {<<"b", ".", "i", "d", "f">>, <<"i", "d", "f">>, <<"a", "i", "d", "f">>,
     <<"a", ".", "i", "d", "f", ";">>, <<"a", ".">>, <<>>}

BufferInputs ==
    {PyStr(v) : v \in BufferStrings}
        \cup {[t |-> "bytes", v |-> <<97, 59>>], [t |-> "bytes", v |-> <<97, 233>>],
              [t |-> "BufferedIOBase", v |-> <<97, 46>>],
              [t |-> "TextIOBase", v |-> <<"a", ";">>], PyInt(15)}

Extensions == {s_idf, s_idd, <<>>}
Encodings == {"utf-8", "latin-1"}

InitBuffer ==
    /\ fd = [a |-> Unbound, b |-> Unbound]
    /\ heap = EmptyDict
    /\ ret = NoCall
    /\ clock = NoClocks
    /\ fs = [p \in {} |-> <<>>]

\* the environment writes a file
BufferCreateFile ==
    \E p \in FilePaths \ DOMAIN fs :
        /\ fs' = [q \in (DOMAIN fs) \cup {p} |-> IF q = p THEN <<"a", ";">> ELSE fs[q]]
        /\ ret' = NoCall
        /\ UNCHANGED <<fd, heap, clock>>

\* the environment deletes a file
BufferDeleteFile ==
    \E p \in DOMAIN fs :
        /\ fs' = [q \in (DOMAIN fs) \ {p} |-> fs[q]]
        /\ ret' = NoCall
        /\ UNCHANGED <<fd, heap, clock>>

BufferGet ==
    \E x \in BufferInputs, ext \in Extensions, enc \in Encodings :
        get_string_buffer(x, ext, enc)

NextBuffer == BufferCreateFile \/ BufferDeleteFile \/ BufferGet

SpecBuffer == InitBuffer /\ [][NextBuffer]_vars

\* C10 as claimed: a string is read as a path only if it ends with
\* '.<expected_extension>' and a file exists there; a string that ends with
\* the extension but names no file is literal text (a text buffer over the
\* string, path None) and no error is raised.
C10_MissingFileIsLiteralText ==
    (ret.op = "get_string_buffer" /\ ret.args[1].t = "str") =>
        IF has_extension(ret.args[1].v, ret.args[2]) /\ ret.args[1].v \in DOMAIN fs
        THEN ret.val = Tuple2(OpenFile(ret.args[1].v, ret.args[3]), ret.args[1])
        ELSE ret.val = Tuple2(StringIO(ret.args[1].v), PyNone)

\* s ends with a dot followed by ext
EndsWithDotExt(s, ext) ==
    /\ Len(s) >= Len(ext) + 1
    /\ s[Len(s) - Len(ext)] = "."
    /\ \A i \in 1..Len(ext) : s[Len(s) - Len(ext) + i] = ext[i]

\* C10 as amended: a string is read as a path if and only if it ends with
\* '.<expected_extension>'; then the file there is opened and returned with
\* the string as path, and when no file exists there the call fails with an
\* AssertionError instead of reading the string as text. A string that does
\* not end with the extension is literal text with path None.
C10_MissingFileFailsAssertion ==
    (ret.op = "get_string_buffer" /\ ret.args[1].t = "str") =>
        IF EndsWithDotExt(ret.args[1].v, ret.args[2])
        THEN IF ret.args[1].v \in DOMAIN fs
             THEN ret.val = Tuple2(OpenFile(ret.args[1].v, ret.args[3]), ret.args[1])
             ELSE ret.val = Raised("AssertionError")
        ELSE ret.val = Tuple2(StringIO(ret.args[1].v), PyNone)

\* C10 witness: 'b.idf' names no file and the call has failed its assertion
C10_Witness ==
    /\ ret.op = "get_string_buffer"
    /\ ret.args[1] = PyStr(<<"b", ".", "i", "d", "f">>)
    /\ ret.args[2] = s_idf
    /\ ret.val = Raised("AssertionError")

====
